---- MODULE Spec2Model ----
(***************************************************************************)
(* Model of src/priority_queue/priority_queue.py: a priority queue built   *)
(* on heapq, whose elements are ordered by priority (descending) and then  *)
(* by a per-priority _TimestampOrder.                                      *)
(*                                                                         *)
(* Python objects are references.  _TimestampOrder objects live in the     *)
(* object store `objs` (a sequence; an object's identity is its index),    *)
(* the dictionary priority_timestamp_order maps a priority to the identity *)
(* of its _TimestampOrder, and an _Element holds the identity of the       *)
(* object that __get_order returned, not a copy of its fields.             *)
(***************************************************************************)
EXTENDS Integers, Sequences, FiniteSets, TLC

\* ---------------------------------------------------------------- constants
\* class Priorities
LOW == 0
NORMAL == 1
HIGH == 2
Priorities == {LOW, NORMAL, HIGH}

\* ------------------------------------------------------------------- bounds
\* Number of push calls in a run.
MaxPush == 4
\* int(time.time()) reads one of 0..MaxClock.
MaxClock == 1

\* Number of threads that call push and pop concurrently.
NumThreads == 2
\* Number of push calls in a run that also has the unlocked readers.
MaxReaderPush == 2
\* Number of push calls in a run under fair scheduling.
MaxFairPush == 2
MaxTwinPush == 4
MaxNumber == 2
MaxPayload == 2

Times == 0..MaxClock
Threads == 1..NumThreads
\* The priorities the concurrent threads push with.
ThreadPriorities == {NORMAL, HIGH}

\* An optional value is a sequence of at most one value: None is the empty
\* one (get_length's default argument, the value of a call that returns nothing).
None == <<>>
Some(x) == <<x>>
\* The exception pop() raises on an empty queue; NoException when a call returns.
QueueEmptyException == "QueueEmptyException"
NoException == "NoException"

VARIABLES
    heap,                      \* self.heap: sequence of _Element (heap[1] is Python's heap[0])
    length,                    \* self.length
    priority_lentghs,          \* self.priority_lentghs: priority -> int
    priority_timestamp_order,  \* self.priority_timestamp_order: priority -> identity in objs
    objs,                      \* the _TimestampOrder objects: identity -> [timestamp, number]
    pushed,                    \* history: pushed[i] is the priority of the i-th push to enter its
                               \*   locked region; its payload is i
    contended,                 \* history: some push took the lock while another thread's push waited for it
    issued,                    \* history: issued[i] is the value of the order key when push i made its element
    popped,                    \* history: the payloads returned by successful pops, in order,
                               \*   each with the number of pushes made before that pop
    ret,                       \* the last call to finish and what it returned
    twin,                      \* a second queue, given the same calls under other clock readings
    mutex,                     \* self._mutex: the thread holding it, or None
    pc,                        \* pc[t]: where thread t is in its call
    frame                      \* frame[t]: the local variables of thread t's call

qvars == <<heap, length, priority_lentghs, priority_timestamp_order, objs>>
hvars == <<pushed, contended, issued, popped, ret>>
tvars == <<mutex, pc, frame>>
vars == <<heap, length, priority_lentghs, priority_timestamp_order, objs,
          pushed, contended, issued, popped, ret, twin, mutex, pc, frame>>

\* ------------------------------------------------------------ _TimestampOrder
\* _TimestampOrder.__init__
TimestampOrder(timestamp, number) == [timestamp |-> timestamp, number |-> number]

\* _TimestampOrder.__lt__
TimestampOrder_lt(self, other) ==
    IF self.timestamp < other.timestamp THEN TRUE
    ELSE IF self.timestamp = other.timestamp /\ self.number < other.number THEN TRUE
    ELSE FALSE

\* _TimestampOrder.__eq__
TimestampOrder_eq(self, other) ==
    IF self.timestamp = other.timestamp /\ self.number = other.number THEN TRUE
    ELSE FALSE

\* ------------------------------------------------------------------ _Element
\* _Element.__init__: order is the identity of a _TimestampOrder object.
Element(priority, order, payload) ==
    [priority |-> priority, order |-> order, payload |-> payload]

\* Element_lt with the priorities compared the wrong way round.
Element_lt_reversed(self, other, store) ==
    IF self.priority < other.priority THEN TRUE
    ELSE IF self.priority = other.priority
         THEN TimestampOrder_lt(store[self.order], store[other.order])
    ELSE FALSE

\* _Element.__lt__, with the order objects read from the store.
Element_lt(self, other, store) ==
    IF self.priority > other.priority THEN TRUE
    ELSE IF self.priority = other.priority
         THEN TimestampOrder_lt(store[self.order], store[other.order])
    ELSE FALSE

\* --------------------------------------------------------------------- heapq
\* Positions are Python's (0-based); h[pos + 1] is Python's heap[pos].
RECURSIVE siftdown_loop(_, _, _, _, _)
siftdown_loop(h, startpos, pos, newitem, store) ==
    IF pos > startpos
    THEN LET parentpos == (pos - 1) \div 2
             parent == h[parentpos + 1]
         IN IF Element_lt(newitem, parent, store)
            THEN siftdown_loop([h EXCEPT ![pos + 1] = parent], startpos, parentpos, newitem, store)
            ELSE [h EXCEPT ![pos + 1] = newitem]
    ELSE [h EXCEPT ![pos + 1] = newitem]

\* heapq._siftdown
siftdown(h, startpos, pos, store) == siftdown_loop(h, startpos, pos, h[pos + 1], store)

RECURSIVE siftup_loop(_, _, _, _, _)
siftup_loop(h, startpos, pos, newitem, store) ==
    LET endpos == Len(h)
        childpos == 2 * pos + 1
    IN IF childpos < endpos
       THEN LET rightpos == childpos + 1
                child == IF rightpos < endpos
                            /\ ~Element_lt(h[childpos + 1], h[rightpos + 1], store)
                         THEN rightpos ELSE childpos
            IN siftup_loop([h EXCEPT ![pos + 1] = h[child + 1]], startpos, child, newitem, store)
       ELSE siftdown([h EXCEPT ![pos + 1] = newitem], startpos, pos, store)

\* heapq._siftup
siftup(h, pos, store) == siftup_loop(h, pos, pos, h[pos + 1], store)

\* heapq.heappush
heappush(h, item, store) == siftdown(Append(h, item), 0, Len(h), store)

\* heappop that returns the first item and leaves it in the heap.
heappop_peek(h, store) == [item |-> h[1], heap |-> h]

\* heapq.heappop: the item returned and the heap left.
heappop(h, store) ==
    LET lastelt == h[Len(h)]
        rest == SubSeq(h, 1, Len(h) - 1)
    IN IF rest # <<>>
       THEN [item |-> h[1], heap |-> siftup([rest EXCEPT ![1] = lastelt], 0, store)]
       ELSE [item |-> lastelt, heap |-> rest]

\* ------------------------------------------------------------- PriorityQueue
\* get_order that keeps one _TimestampOrder for all the priorities.
get_order_global(pto, store, priority, T0, T) ==
    LET fresh == priority \notin DOMAIN pto
        pto1 == IF fresh THEN pto @@ (priority :> 1) ELSE pto
        store1 == IF store = <<>> THEN <<TimestampOrder(T0, 0)>> ELSE store
        id == pto1[priority]
        store2 == IF T > store1[id].timestamp
                  THEN [store1 EXCEPT ![id].timestamp = T]
                  ELSE [store1 EXCEPT ![id].number = @ + 1]
    IN [pto |-> pto1, objs |-> store2, order |-> id]

\* get_order that makes a new _TimestampOrder from the reading T at every call.
get_order_fresh(pto, store, priority, T0, T) ==
    LET id == Len(store) + 1
    IN [pto |-> (priority :> id) @@ pto,
        objs |-> Append(store, TimestampOrder(T, id)),
        order |-> id]

\* get_order that starts the number again at 0 when the timestamp advances.
get_order_reset(pto, store, priority, T0, T) ==
    LET fresh == priority \notin DOMAIN pto
        pto1 == IF fresh THEN pto @@ (priority :> Len(store) + 1) ELSE pto
        store1 == IF fresh THEN Append(store, TimestampOrder(T0, 0)) ELSE store
        id == pto1[priority]
        store2 == IF T > store1[id].timestamp
                  THEN [store1 EXCEPT ![id] = TimestampOrder(T, 0)]
                  ELSE [store1 EXCEPT ![id].number = @ + 1]
    IN [pto |-> pto1, objs |-> store2, order |-> id]

\* PriorityQueue.__get_order, with T0 and T the two readings of int(time.time()):
\* the dictionary and the store after the call, and the identity returned.
get_order(pto, store, priority, T0, T) ==
    LET fresh == priority \notin DOMAIN pto
        pto1 == IF fresh THEN pto @@ (priority :> Len(store) + 1) ELSE pto
        store1 == IF fresh THEN Append(store, TimestampOrder(T0, 0)) ELSE store
        id == pto1[priority]
        store2 == IF T > store1[id].timestamp
                  THEN [store1 EXCEPT ![id].timestamp = T]
                  ELSE [store1 EXCEPT ![id].number = @ + 1]
    IN [pto |-> pto1, objs |-> store2, order |-> id]

\* is_empty with the test inverted.
is_empty_inverted == length # 0

\* PriorityQueue.is_empty
is_empty == length = 0

\* PriorityQueue.get_length
get_length(priority) ==
    IF priority = None THEN length
    ELSE IF priority[1] \notin DOMAIN priority_lentghs THEN 0
    ELSE priority_lentghs[priority[1]]

\* push: self.length += 1
push_length(n) == n + 1

\* push_priority_lentghs that sets the counter of a known priority to 1 again.
push_priority_lentghs_reset(pl, priority) ==
    IF priority \notin DOMAIN pl THEN pl @@ (priority :> 1)
    ELSE [pl EXCEPT ![priority] = 1]

\* push: the update of self.priority_lentghs
push_priority_lentghs(pl, priority) ==
    IF priority \notin DOMAIN pl THEN pl @@ (priority :> 1)
    ELSE [pl EXCEPT ![priority] = @ + 1]

\* pop_length that leaves the count as it is.
pop_length_skipped(n) == n

\* pop: self.length -= 1
pop_length(n) == n - 1

\* pop that leaves the counter of the popped priority as it was.
pop_priority_lentghs_skipped(pl, priority) == pl

\* pop: self.priority_lentghs[popped.priority] -= 1
pop_priority_lentghs(pl, priority) == [pl EXCEPT ![priority] = @ - 1]

\* A queue as PriorityQueue.__init__ leaves it, as a record of its fields.
NewQueue ==
    [heap |-> <<>>, length |-> 0, priority_lentghs |-> <<>>,
     priority_timestamp_order |-> <<>>, objs |-> <<>>,
     ret |-> [op |-> "init", exc |-> NoException, val |-> None]]

\* The locals of a call: push's priority, obj and element, pop's popped.
NoFrame == [priority |-> None, obj |-> None, element |-> None, popped |-> None]

\* PriorityQueue.__init__
Init ==
    /\ mutex = None
    /\ pc = [t \in Threads |-> "idle"]
    /\ frame = [t \in Threads |-> NoFrame]
    /\ heap = <<>>
    /\ length = 0
    /\ priority_lentghs = <<>>
    /\ priority_timestamp_order = <<>>
    /\ objs = <<>>
    /\ pushed = <<>>
    /\ contended = FALSE
    /\ issued = <<>>
    /\ popped = <<>>
    /\ ret = [op |-> "init", exc |-> NoException, val |-> None]
    /\ twin = NewQueue

\* PriorityQueue.push(obj, priority), the clock reading T0 and then T.
push(obj, priority, T0, T) ==
    LET o == get_order(priority_timestamp_order, objs, priority, T0, T)
        element == Element(priority, o.order, obj)
    IN /\ priority_timestamp_order' = o.pto
       /\ objs' = o.objs
       /\ heap' = heappush(heap, element, o.objs)
       /\ length' = push_length(length)
       /\ priority_lentghs' = push_priority_lentghs(priority_lentghs, priority)
       /\ pushed' = Append(pushed, priority)
       /\ issued' = Append(issued, o.objs[o.order])
       /\ ret' = [op |-> "push", exc |-> NoException, val |-> None]
       /\ UNCHANGED <<contended, popped>>

\* pop with self.length -= 1 moved in front of the raise.
pop_raise_decrements ==
    IF is_empty
    THEN /\ ret' = [op |-> "pop", exc |-> QueueEmptyException, val |-> None]
         /\ length' = pop_length(length)
         /\ UNCHANGED <<heap, priority_lentghs, priority_timestamp_order,
                        objs, pushed, contended, issued, popped>>
    ELSE LET r == heappop(heap, objs)
         IN /\ length' = pop_length(length)
            /\ heap' = r.heap
            /\ priority_lentghs' = pop_priority_lentghs(priority_lentghs, r.item.priority)
            /\ popped' = Append(popped, [payload |-> r.item.payload, pushes |-> Len(pushed)])
            /\ ret' = [op |-> "pop", exc |-> NoException, val |-> Some(r.item.payload)]
            /\ UNCHANGED <<priority_timestamp_order, objs, pushed, contended, issued>>

\* PriorityQueue.pop()
pop ==
    IF is_empty
    THEN /\ ret' = [op |-> "pop", exc |-> QueueEmptyException, val |-> None]
         /\ UNCHANGED <<heap, length, priority_lentghs, priority_timestamp_order,
                        objs, pushed, contended, issued, popped>>
    ELSE LET r == heappop(heap, objs)
         IN /\ length' = pop_length(length)
            /\ heap' = r.heap
            /\ priority_lentghs' = pop_priority_lentghs(priority_lentghs, r.item.priority)
            /\ popped' = Append(popped, [payload |-> r.item.payload, pushes |-> Len(pushed)])
            /\ ret' = [op |-> "pop", exc |-> NoException, val |-> Some(r.item.payload)]
            /\ UNCHANGED <<priority_timestamp_order, objs, pushed, contended, issued>>

\* A call of push: the payload is the number of the push, so that arrival
\* order can be read off the payloads.
Push ==
    /\ Len(pushed) < MaxPush
    /\ \E priority \in Priorities, T0 \in Times, T \in Times :
          push(Len(pushed) + 1, priority, T0, T)
    /\ UNCHANGED <<tvars, twin>>

Pop == pop /\ UNCHANGED <<tvars, twin>>

Next == Push \/ Pop

Spec == Init /\ [][Next]_vars

\* ------------------------------------------------------- the order generator
\* __get_order called on its own, for any priority and any two clock readings.
\* frame[1] keeps the call's priority and readings; a priority gets at most
\* MaxPush increments of its number.
GetOrder ==
    \E priority \in Priorities, T0 \in Times, T \in Times :
        /\ priority \in DOMAIN priority_timestamp_order
              => objs[priority_timestamp_order[priority]].number < MaxPush
        /\ LET o == get_order(priority_timestamp_order, objs, priority, T0, T)
           IN /\ priority_timestamp_order' = o.pto
              /\ objs' = o.objs
              /\ ret' = [op |-> "__get_order", exc |-> NoException, val |-> Some(o.order)]
        /\ frame' = [frame EXCEPT ![1] = [priority |-> Some(priority),
                                          first_timestamp |-> T0,
                                          current_timestamp |-> T]]
        /\ UNCHANGED <<heap, length, priority_lentghs, pushed, contended, issued, popped,
                       twin, mutex, pc>>

NextOrder == GetOrder

SpecOrder == Init /\ [][NextOrder]_vars

\* ------------------------------------------------------------------- threads
\* The same calls made by concurrent threads, one statement a step.

\* Thread t calls push(obj, priority); obj is handed over when the lock is taken.
CallPush(t) ==
    /\ pc[t] = "idle"
    /\ Len(pushed) + Cardinality({u \in Threads : pc[u] = "push_acquire"}) < MaxPush
    /\ \E priority \in ThreadPriorities :
          frame' = [frame EXCEPT ![t] = [NoFrame EXCEPT !.priority = Some(priority)]]
    /\ pc' = [pc EXCEPT ![t] = "push_acquire"]
    /\ UNCHANGED <<twin, qvars, hvars, mutex>>

\* PushAcquire that does not wait for the lock to be free.
PushAcquire_unlocked(t) ==
    /\ pc[t] = "push_acquire"
    /\ mutex' = Some(t)
    /\ frame' = [frame EXCEPT ![t].obj = Some(Len(pushed) + 1)]
    /\ pushed' = Append(pushed, frame[t].priority[1])
    /\ contended' = (contended \/ \E u \in Threads \ {t} : pc[u] = "push_acquire")
    /\ pc' = [pc EXCEPT ![t] = "push_element"]
    /\ UNCHANGED <<twin, qvars, issued, popped, ret>>

\* push: with self._mutex (enter). The payload is the number of the acquisition.
PushAcquire(t) ==
    /\ pc[t] = "push_acquire"
    /\ mutex = None
    /\ mutex' = Some(t)
    /\ frame' = [frame EXCEPT ![t].obj = Some(Len(pushed) + 1)]
    /\ pushed' = Append(pushed, frame[t].priority[1])
    /\ contended' = (contended \/ \E u \in Threads \ {t} : pc[u] = "push_acquire")
    /\ pc' = [pc EXCEPT ![t] = "push_element"]
    /\ UNCHANGED <<twin, qvars, issued, popped, ret>>

\* push: element = _Element(priority, self.__get_order(priority), obj)
PushElement(t) ==
    /\ pc[t] = "push_element"
    /\ \E T0 \in Times, T \in Times :
          LET priority == frame[t].priority[1]
              o == get_order(priority_timestamp_order, objs, priority, T0, T)
          IN /\ priority_timestamp_order' = o.pto
             /\ objs' = o.objs
             /\ frame' = [frame EXCEPT ![t].element =
                                Some(Element(priority, o.order, frame[t].obj[1]))]
             /\ issued' = Append(issued, o.objs[o.order])
    /\ pc' = [pc EXCEPT ![t] = "push_heappush"]
    /\ UNCHANGED <<twin, heap, length, priority_lentghs, pushed, contended, popped, ret, mutex>>

\* push: heapq.heappush(self.heap, element)
PushHeappush(t) ==
    /\ pc[t] = "push_heappush"
    /\ heap' = heappush(heap, frame[t].element[1], objs)
    /\ pc' = [pc EXCEPT ![t] = "push_length"]
    /\ UNCHANGED <<twin, length, priority_lentghs, priority_timestamp_order, objs, hvars, mutex, frame>>

\* push: self.length += 1
PushLength(t) ==
    /\ pc[t] = "push_length"
    /\ length' = push_length(length)
    /\ pc' = [pc EXCEPT ![t] = "push_lentghs"]
    /\ UNCHANGED <<twin, heap, priority_lentghs, priority_timestamp_order, objs, hvars, mutex, frame>>

\* push: the update of self.priority_lentghs
PushLentghs(t) ==
    /\ pc[t] = "push_lentghs"
    /\ priority_lentghs' = push_priority_lentghs(priority_lentghs, frame[t].priority[1])
    /\ pc' = [pc EXCEPT ![t] = "push_release"]
    /\ UNCHANGED <<twin, heap, length, priority_timestamp_order, objs, hvars, mutex, frame>>

\* push: with self._mutex (exit), and the return.
PushRelease(t) ==
    /\ pc[t] = "push_release"
    /\ mutex' = None
    /\ ret' = [op |-> "push", exc |-> NoException, val |-> None]
    /\ frame' = [frame EXCEPT ![t] = NoFrame]
    /\ pc' = [pc EXCEPT ![t] = "idle"]
    /\ UNCHANGED <<twin, qvars, pushed, contended, issued, popped>>

\* Thread t calls pop().
CallPop(t) ==
    /\ pc[t] = "idle"
    /\ pc' = [pc EXCEPT ![t] = "pop_acquire"]
    /\ UNCHANGED <<twin, qvars, hvars, mutex, frame>>

\* pop: with self._mutex (enter)
PopAcquire(t) ==
    /\ pc[t] = "pop_acquire"
    /\ mutex = None
    /\ mutex' = Some(t)
    /\ pc' = [pc EXCEPT ![t] = "pop_is_empty"]
    /\ UNCHANGED <<twin, qvars, hvars, frame>>

\* pop: if self.is_empty(): raise QueueEmptyException
PopIsEmpty(t) ==
    /\ pc[t] = "pop_is_empty"
    /\ pc' = [pc EXCEPT ![t] = IF is_empty THEN "pop_raise" ELSE "pop_length"]
    /\ UNCHANGED <<twin, qvars, hvars, mutex, frame>>

\* PopRaise that leaves the lock held when the exception is raised.
PopRaise_keeps_lock(t) ==
    /\ pc[t] = "pop_raise"
    /\ ret' = [op |-> "pop", exc |-> QueueEmptyException, val |-> None]
    /\ pc' = [pc EXCEPT ![t] = "idle"]
    /\ UNCHANGED <<twin, qvars, pushed, contended, issued, popped, frame, mutex>>

\* pop: the exception leaves the with block, which releases the lock.
PopRaise(t) ==
    /\ pc[t] = "pop_raise"
    /\ mutex' = None
    /\ ret' = [op |-> "pop", exc |-> QueueEmptyException, val |-> None]
    /\ pc' = [pc EXCEPT ![t] = "idle"]
    /\ UNCHANGED <<twin, qvars, pushed, contended, issued, popped, frame>>

\* pop: self.length -= 1
PopLength(t) ==
    /\ pc[t] = "pop_length"
    /\ length' = pop_length(length)
    /\ pc' = [pc EXCEPT ![t] = "pop_heappop"]
    /\ UNCHANGED <<twin, heap, priority_lentghs, priority_timestamp_order, objs, hvars, mutex, frame>>

\* pop: popped = heapq.heappop(self.heap)
PopHeappop(t) ==
    /\ pc[t] = "pop_heappop"
    /\ LET r == heappop(heap, objs)
       IN /\ heap' = r.heap
          /\ frame' = [frame EXCEPT ![t].popped = Some(r.item)]
    /\ pc' = [pc EXCEPT ![t] = "pop_lentghs"]
    /\ UNCHANGED <<twin, length, priority_lentghs, priority_timestamp_order, objs, hvars, mutex>>

\* pop: self.priority_lentghs[popped.priority] -= 1
PopLentghs(t) ==
    /\ pc[t] = "pop_lentghs"
    /\ priority_lentghs' = pop_priority_lentghs(priority_lentghs, frame[t].popped[1].priority)
    /\ pc' = [pc EXCEPT ![t] = "pop_return"]
    /\ UNCHANGED <<twin, heap, length, priority_timestamp_order, objs, hvars, mutex, frame>>

\* pop: return popped.payload, which leaves the with block and releases the lock.
PopReturn(t) ==
    /\ pc[t] = "pop_return"
    /\ mutex' = None
    /\ popped' = Append(popped, [payload |-> frame[t].popped[1].payload, pushes |-> Len(pushed)])
    /\ ret' = [op |-> "pop", exc |-> NoException, val |-> Some(frame[t].popped[1].payload)]
    /\ frame' = [frame EXCEPT ![t] = NoFrame]
    /\ pc' = [pc EXCEPT ![t] = "idle"]
    /\ UNCHANGED <<twin, qvars, pushed, contended, issued>>

NextThreads ==
    \E t \in Threads :
        \/ CallPush(t) \/ PushAcquire(t) \/ PushElement(t) \/ PushHeappush(t)
        \/ PushLength(t) \/ PushLentghs(t) \/ PushRelease(t)
        \/ CallPop(t) \/ PopAcquire(t) \/ PopIsEmpty(t) \/ PopRaise(t)
        \/ PopLength(t) \/ PopHeappop(t) \/ PopLentghs(t) \/ PopReturn(t)

SpecThreads == Init /\ [][NextThreads]_vars

\* The push calls made or waiting to take the lock.
PushCalls == Len(pushed) + Cardinality({u \in Threads : pc[u] = "push_acquire"})

\* ----------------------------------------------------------- fair scheduling
\* The steps of thread t that wait for nothing: every statement inside the
\* with blocks, and the exits that release the lock.
Body(t) ==
    \/ PushElement(t) \/ PushHeappush(t) \/ PushLength(t) \/ PushLentghs(t)
    \/ PushRelease(t)
    \/ PopIsEmpty(t) \/ PopRaise(t) \/ PopLength(t) \/ PopHeappop(t)
    \/ PopLentghs(t) \/ PopReturn(t)

NextFair ==
    \E t \in Threads :
        \/ CallPush(t) /\ PushCalls' <= MaxFairPush
        \/ PushAcquire(t) \/ PushElement(t) \/ PushHeappush(t)
        \/ PushLength(t) \/ PushLentghs(t) \/ PushRelease(t)
        \/ CallPop(t) \/ PopAcquire(t) \/ PopIsEmpty(t) \/ PopRaise(t)
        \/ PopLength(t) \/ PopHeappop(t) \/ PopLentghs(t) \/ PopReturn(t)

\* A running thread keeps running, and a thread that waits for the lock gets
\* it if the lock is free again and again.
Fairness ==
    \A t \in Threads :
        /\ WF_vars(Body(t))
        /\ SF_vars(PushAcquire(t))
        /\ SF_vars(PopAcquire(t))

SpecFair == Init /\ [][NextFair]_vars /\ Fairness

\* ------------------------------------------------------------------- readers
\* is_empty and get_length take no lock: a call is a read of the fields.

\* Thread t calls is_empty().
CallIsEmpty(t) ==
    /\ pc[t] = "idle"
    /\ pc' = [pc EXCEPT ![t] = "is_empty"]
    /\ UNCHANGED <<twin, qvars, hvars, mutex, frame>>

\* is_empty: return self.length == 0
IsEmptyReturn(t) ==
    /\ pc[t] = "is_empty"
    /\ ret' = [op |-> "is_empty", exc |-> NoException, val |-> Some(is_empty)]
    /\ pc' = [pc EXCEPT ![t] = "idle"]
    /\ UNCHANGED <<twin, qvars, pushed, contended, issued, popped, mutex, frame>>

\* Thread t calls get_length(priority), priority None or a priority.
CallGetLength(t) ==
    /\ pc[t] = "idle"
    /\ \E priority \in {None} \cup {Some(p) : p \in ThreadPriorities} :
          frame' = [frame EXCEPT ![t] = [NoFrame EXCEPT !.priority = priority]]
    /\ pc' = [pc EXCEPT ![t] = "get_length"]
    /\ UNCHANGED <<twin, qvars, hvars, mutex>>

\* get_length: the body, which returns self.length or a per-priority counter.
GetLengthReturn(t) ==
    /\ pc[t] = "get_length"
    /\ ret' = [op |-> "get_length", exc |-> NoException,
               val |-> Some(get_length(frame[t].priority))]
    /\ frame' = [frame EXCEPT ![t] = NoFrame]
    /\ pc' = [pc EXCEPT ![t] = "idle"]
    /\ UNCHANGED <<twin, qvars, pushed, contended, issued, popped, mutex>>

NextReaders ==
    \E t \in Threads :
        \/ CallPush(t) /\ PushCalls' <= MaxReaderPush
        \/ PushAcquire(t) \/ PushElement(t) \/ PushHeappush(t)
        \/ PushLength(t) \/ PushLentghs(t) \/ PushRelease(t)
        \/ CallPop(t) \/ PopAcquire(t) \/ PopIsEmpty(t) \/ PopRaise(t)
        \/ PopLength(t) \/ PopHeappop(t) \/ PopLentghs(t) \/ PopReturn(t)
        \/ CallIsEmpty(t) \/ IsEmptyReturn(t)
        \/ CallGetLength(t) \/ GetLengthReturn(t)

SpecReaders == Init /\ [][NextReaders]_vars

\* ------------------------------------------------------------------ history
\* The priority the payload x was pushed with.
PriorityOf(x) == pushed[x]

\* The positions of the heap that hold an element of priority p.
StoredAt(p) == {i \in DOMAIN heap : heap[i].priority = p}

\* All pushes so far used one priority, and every pop came after the last push.
SinglePriorityThenPops ==
    /\ \A i, j \in DOMAIN pushed : pushed[i] = pushed[j]
    /\ \A k \in DOMAIN popped : popped[k].pushes = Len(pushed)

\* The step is a successful pop.
PopReturned == Len(popped') = Len(popped) + 1

\* ------------------------------------------------------------------- claims

\* C1: FIFO within a priority. After n pushes at one single priority into an
\* empty queue, the following pops return the payloads in the order pushed:
\* the k-th pop returns the k-th payload.
C1_FifoSinglePriority ==
    SinglePriorityThenPops => \A k \in DOMAIN popped : popped[k].payload = k

\* C2: priority dominance. A successful pop returns a payload whose priority
\* is the maximum priority among the elements stored at that moment.
C2_PriorityDominance ==
    [][PopReturned =>
          \A i \in DOMAIN heap :
              heap[i].priority <= PriorityOf(popped'[Len(popped')].payload)]_vars

\* A pop has just returned a payload while an element of lower priority and
\* earlier arrival stayed in the queue.
C2_Witness ==
    /\ ret.op = "pop"
    /\ ret.exc = NoException
    /\ \E i \in DOMAIN heap :
          /\ heap[i].priority < PriorityOf(ret.val[1])
          /\ heap[i].payload < ret.val[1]

\* C3: composite priority + FIFO order under interleaved use. Of two popped
\* elements of the same priority, the one pushed earlier was popped earlier.
C3_FifoInterleaved ==
    \A i, j \in DOMAIN popped :
        (i < j /\ PriorityOf(popped[i].payload) = PriorityOf(popped[j].payload))
            => popped[i].payload < popped[j].payload

\* C4: total length. After N pushes and M successful pops, get_length() with
\* no priority returns N - M.
C4_TotalLength == get_length(None) = Len(pushed) - Len(popped)

\* Pushes, successful pops and a failed pop have all happened.
C4_Witness ==
    /\ Len(pushed) = 3
    /\ Len(popped) = 3
    /\ ret = [op |-> "pop", exc |-> QueueEmptyException, val |-> None]

\* C5: per-priority length. For every priority p, get_length(p) is the number
\* of elements pushed at p and not yet popped, which is the number of elements
\* of priority p stored in the heap, and is 0 for a priority never pushed.
C5_PriorityLength ==
    \A p \in Priorities :
        /\ get_length(Some(p)) = Cardinality(StoredAt(p))
        /\ get_length(Some(p)) = Cardinality({x \in DOMAIN pushed : pushed[x] = p})
                           - Cardinality({k \in DOMAIN popped : PriorityOf(popped[k].payload) = p})
        /\ (\A x \in DOMAIN pushed : pushed[x] # p) => get_length(Some(p)) = 0

\* One priority was pushed and popped back to zero, one is still stored and
\* one was never pushed.
C5_Witness ==
    /\ HIGH \in DOMAIN priority_lentghs /\ priority_lentghs[HIGH] = 0
    /\ Cardinality(StoredAt(NORMAL)) = 2
    /\ LOW \notin DOMAIN priority_lentghs
    /\ popped # <<>>

\* C6: a pop of an empty queue yields QueueEmptyException and leaves the heap,
\* the total count, every per-priority counter and the order-generator state
\* as they were, so that get_length() is still 0.
C6_PopEmptyUnchanged ==
    [][(heap = <<>> /\ ret'.op = "pop") =>
          /\ ret'.exc = QueueEmptyException
          /\ ret'.val = None
          /\ UNCHANGED <<heap, length, priority_lentghs, priority_timestamp_order, objs>>
          /\ get_length(None)' = 0]_vars

\* A pop has failed on a queue that had been used and drained.
C6_Witness ==
    /\ ret = [op |-> "pop", exc |-> QueueEmptyException, val |-> None]
    /\ Len(pushed) >= 2
    /\ Len(popped) = Len(pushed)

\* C7: is_empty() is true iff get_length() is 0; the queue is empty initially
\* and exactly when the successful pops are as many as the pushes, and is not
\* empty after a push.
C7_EmptyIffZero ==
    /\ is_empty <=> get_length(None) = 0
    /\ is_empty <=> Len(popped) = Len(pushed)
    /\ ret.op = "push" => ~is_empty

\* The queue went from empty to non-empty and back to empty.
C7_Witness ==
    /\ is_empty
    /\ Len(pushed) >= 2
    /\ ret.op = "pop"
    /\ ret.exc = NoException

\* C8: concurrent pushes keep lock order. When threads have pushed concurrently
\* at one priority and the payloads are popped after all the pushes, the k-th
\* pop returns the payload of the k-th push to take the lock.
C8_ConcurrentPushLockOrder ==
    (contended /\ SinglePriorityThenPops)
        => \A k \in DOMAIN popped : popped[k].payload = k

\* C9: order keys are strictly increasing per priority. Of two stored elements
\* of one priority, the one pushed earlier holds an order key strictly less
\* than the other's.
C9_OrderKeysIncreasing ==
    \A i, j \in DOMAIN heap :
        (heap[i].priority = heap[j].priority /\ heap[i].payload < heap[j].payload)
            => TimestampOrder_lt(objs[heap[i].order], objs[heap[j].order])

\* C10: elements are immutable once constructed. No step changes the priority
\* or the order key of an element that stays stored, and a stored element's
\* order key is the value it was given when it was pushed.
C10_ElementsImmutable ==
    [][\A i \in DOMAIN heap, j \in DOMAIN heap' :
          heap[i].payload = heap'[j].payload =>
              /\ heap'[j].priority = heap[i].priority
              /\ objs'[heap'[j].order] = objs[heap[i].order]
              /\ objs'[heap'[j].order] = issued'[heap'[j].payload]]_vars

\* Thread t is inside the with self._mutex block of push or pop.
InLockedRegion(t) ==
    pc[t] \in {"push_element", "push_heappush", "push_length", "push_lentghs", "push_release",
               "pop_is_empty", "pop_raise", "pop_length", "pop_heappop", "pop_lentghs",
               "pop_return"}

\* C11: mutual exclusion of mutators. At most one thread is inside the locked
\* region, and it is the holder of the lock; no two pushes at one priority were
\* issued the same order-key value.
C11_MutualExclusion ==
    /\ \A t, u \in Threads : (InLockedRegion(t) /\ InLockedRegion(u)) => t = u
    /\ \A t \in Threads : InLockedRegion(t) <=> mutex = Some(t)
    /\ \A i, j \in DOMAIN issued :
          (i < j /\ pushed[i] = pushed[j]) => issued[i] # issued[j]

\* A thread is part-way through a pop while the other waits to push, after two
\* pushes at one priority were issued their keys.
C11_Witness ==
    /\ \E t, u \in Threads :
          /\ pc[t] = "pop_heappop"
          /\ pc[u] = "push_acquire"
    /\ \E i, j \in DOMAIN issued : i < j /\ pushed[i] = pushed[j]

\* The sum of the per-priority counters of the priorities in S.
RECURSIVE SumLentghs(_)
SumLentghs(S) ==
    IF S = {} THEN 0
    ELSE LET p == CHOOSE x \in S : TRUE
         IN priority_lentghs[p] + SumLentghs(S \ {p})

\* Thread t is about to read the queue in is_empty or get_length.
Reading(t) == pc[t] \in {"is_empty", "get_length"}

\* C12: unlocked readers never see a partial update. Whenever an is_empty() or
\* get_length() call reads the queue, the total count equals the number of
\* elements in the heap and the sum of the per-priority counters.
C12_ReadersSeeNoPartialUpdate ==
    (\E t \in Threads : Reading(t)) =>
        /\ length = Len(heap)
        /\ length = SumLentghs(DOMAIN priority_lentghs)

\* C13: no operation blocks or stalls. Under fair scheduling every started
\* push and pop completes; a pop that finds the queue empty goes straight to
\* raising QueueEmptyException, and leaving by the exception releases the lock;
\* a thread that is in no call holds no lock.
C13_NoOperationStalls ==
    /\ \A t \in Threads : (pc[t] # "idle") ~> (pc[t] = "idle")
    /\ [][\A t \in Threads :
             /\ (pc[t] = "pop_is_empty" /\ length = 0 /\ pc'[t] # pc[t])
                    => pc'[t] = "pop_raise"
             /\ (pc[t] = "pop_raise" /\ pc'[t] # pc[t])
                    => (pc'[t] = "idle" /\ mutex' = None
                        /\ ret'.exc = QueueEmptyException)]_vars
    /\ [](\A t \in Threads : pc[t] = "idle" => mutex # Some(t))

\* A thread waits for the lock while the other holds it on the path that
\* raises QueueEmptyException.
C13_Witness ==
    \E t, u \in Threads :
        /\ pc[t] = "pop_raise"
        /\ mutex = Some(t)
        /\ pc[u] \in {"push_acquire", "pop_acquire"}

\* C14: the order-generator step rule. A call for priority p with clock reading
\* T sets the timestamp to T and keeps the number when T is greater than the
\* last timestamp, and otherwise (T equal or earlier) adds 1 to the number and
\* keeps the timestamp; the number never goes down. On the first call for p the
\* state the rule starts from is (first reading, 0).
C14_GeneratorStepRule ==
    [][LET c == frame'[1]
           p == c.priority[1]
           old == IF p \in DOMAIN priority_timestamp_order
                  THEN objs[priority_timestamp_order[p]]
                  ELSE [timestamp |-> c.first_timestamp, number |-> 0]
           new == objs'[priority_timestamp_order'[p]]
       IN /\ IF c.current_timestamp > old.timestamp
             THEN new = [timestamp |-> c.current_timestamp, number |-> old.number]
             ELSE new = [timestamp |-> old.timestamp, number |-> old.number + 1]
          /\ new.number >= old.number]_vars

\* The generator was called with a clock that went backwards, after calls that
\* advanced the timestamp and calls that raised the number.
C14_Witness ==
    /\ ret.op = "__get_order"
    /\ frame[1].current_timestamp < objs[ret.val[1]].timestamp
    /\ objs[ret.val[1]].number >= 2
    /\ Len(objs) >= 2

\* The generator state of priority q: None before its first use, else the
\* object the dictionary holds for q and that object's fields.
GeneratorState(q) ==
    IF q \in DOMAIN priority_timestamp_order
    THEN Some([id |-> priority_timestamp_order[q], order |-> objs[priority_timestamp_order[q]]])
    ELSE None

\* The occupancy counter of priority q: None before its first push.
Counter(q) == IF q \in DOMAIN priority_lentghs THEN Some(priority_lentghs[q]) ELSE None

\* C15: generator state is per priority. A push at priority p leaves the
\* generator state and the occupancy counter of every other priority as they
\* were, and a pop changes no generator state.
C15_GeneratorPerPriority ==
    [][/\ Len(pushed') = Len(pushed) + 1 =>
             \A q \in Priorities \ {pushed'[Len(pushed')]} :
                 /\ GeneratorState(q)' = GeneratorState(q)
                 /\ Counter(q)' = Counter(q)
       /\ ret'.op = "pop" =>
             /\ priority_timestamp_order' = priority_timestamp_order
             /\ objs' = objs]_vars

\* A push was made while the two other priorities had generator state and a
\* pop had been made.
C15_Witness ==
    /\ ret.op = "push"
    /\ DOMAIN priority_timestamp_order = Priorities
    /\ popped # <<>>
    /\ \E q \in Priorities \ {pushed[Len(pushed)]} : priority_lentghs[q] > 0

\* ---------------------------------------------------------------------------
\* The comparison of two elements, applied on its own to operands drawn from
\* bounded sets. frame[1] holds the two operands, objs the _TimestampOrder
\* objects they refer to (both may refer to the same one), ret the outcome.

\* _Element.__eq__ that compares the order objects by identity.
Element_eq_identity(self, other, store) ==
    self.priority = other.priority /\ self.order = other.order

\* _Element.__eq__
Element_eq(self, other, store) ==
    self.priority = other.priority /\ TimestampOrder_eq(store[self.order], store[other.order])

\* _Element.__gt__
Element_gt(self, other, store) ==
    ~(Element_lt(self, other, store) \/ Element_eq(self, other, store))

Orders == {TimestampOrder(ts, n) : ts \in Times, n \in 0..MaxNumber}

Payloads == 1..MaxPayload

InitCompare ==
    /\ mutex = None
    /\ pc = [t \in Threads |-> "idle"]
    /\ heap = <<>>
    /\ length = 0
    /\ priority_lentghs = <<>>
    /\ priority_timestamp_order = <<>>
    /\ objs \in [1..2 -> Orders]
    /\ \E pa \in Priorities, pb \in Priorities, oa \in 1..2, ob \in 1..2,
          xa \in Payloads, xb \in Payloads :
           frame = [t \in Threads |->
                       IF t = 1 THEN [self |-> Element(pa, oa, xa), other |-> Element(pb, ob, xb)]
                                ELSE NoFrame]
    /\ pushed = <<>>
    /\ contended = FALSE
    /\ issued = <<>>
    /\ popped = <<>>
    /\ ret = [op |-> "init", exc |-> NoException, val |-> None]
    /\ twin = NewQueue

\* self < other, self == other, self > other and other < self are evaluated.
Compare ==
    /\ ret.op = "init"
    /\ LET a == frame[1].self
           b == frame[1].other
       IN ret' = [op |-> "compare", exc |-> NoException,
                  val |-> Some([lt |-> Element_lt(a, b, objs),
                                eq |-> Element_eq(a, b, objs),
                                gt |-> Element_gt(a, b, objs),
                                rlt |-> Element_lt(b, a, objs)])]
    /\ UNCHANGED <<qvars, pushed, contended, issued, popped, twin, tvars>>

NextCompare == Compare

SpecCompare == InitCompare /\ [][NextCompare]_vars

\* The reference order: priority descending, then (timestamp, number)
\* lexicographically ascending.
ReferenceLess(pa, ka, pb, kb) ==
    \/ pa > pb
    \/ /\ pa = pb
       /\ \/ ka.timestamp < kb.timestamp
          \/ ka.timestamp = kb.timestamp /\ ka.number < kb.number

Exactly1(S) == Cardinality({i \in DOMAIN S : S[i]}) = 1

\* C16: the comparison of elements is the reference strict total order. For
\* two elements a and b, a < b iff a has the higher priority or the same
\* priority and the lexicographically smaller (timestamp, number); a == b iff
\* priority and order key are equal, whatever the payloads; exactly one of
\* a < b, a == b, a > b holds; and a > b is b < a.
C16_ElementTotalOrder ==
    ret.op = "compare" =>
        LET a == frame[1].self
            b == frame[1].other
            ka == objs[a.order]
            kb == objs[b.order]
            r == ret.val[1]
        IN /\ r.lt <=> ReferenceLess(a.priority, ka, b.priority, kb)
           /\ r.eq <=> (a.priority = b.priority /\ ka.timestamp = kb.timestamp
                                                /\ ka.number = kb.number)
           /\ Exactly1(<<r.lt, r.eq, r.gt>>)
           /\ r.gt <=> r.rlt

\* Two elements with different payloads and two different order objects that
\* hold the same key were compared and found equal.
C16_Witness ==
    /\ ret.op = "compare"
    /\ frame[1].self.payload # frame[1].other.payload
    /\ frame[1].self.order # frame[1].other.order
    /\ ret.val[1].eq

\* C17: quiescent consistency. In every state in which no thread holds the
\* lock, the total count is the number of elements in the heap and the sum of
\* the per-priority counters, and each per-priority counter is the number of
\* heap elements of its priority and is not negative; a priority with no
\* counter has no element in the heap.
C17_QuiescentConsistency ==
    mutex = None =>
        /\ length = Len(heap)
        /\ length = SumLentghs(DOMAIN priority_lentghs)
        /\ \A p \in DOMAIN priority_lentghs :
              /\ priority_lentghs[p] = Cardinality(StoredAt(p))
              /\ priority_lentghs[p] >= 0
        /\ \A p \in Priorities \ DOMAIN priority_lentghs : StoredAt(p) = {}

\* No thread holds the lock after pushes and pops: elements are stored, the
\* counter of one priority is back at zero and a thread waits for the lock.
C17_Witness ==
    /\ mutex = None
    /\ popped # <<>>
    /\ Len(heap) >= 2
    /\ \E p \in DOMAIN priority_lentghs : priority_lentghs[p] = 0
    /\ \E t \in Threads : pc[t] \in {"push_acquire", "pop_acquire"}

\* Thread t holds payload x outside the heap: a push that has not yet
\* inserted it, or a pop that has removed it and not yet returned it.
InFlight(t, x) ==
    \/ pc[t] \in {"push_element", "push_heappush"} /\ frame[t].obj = Some(x)
    \/ pc[t] \in {"pop_lentghs", "pop_return"} /\ frame[t].popped[1].payload = x

\* The number of places that hold payload x: returned by a pop, stored in the
\* heap, or held by a call in progress.
Occurrences(x) ==
    Cardinality({k \in DOMAIN popped : popped[k].payload = x})
    + Cardinality({i \in DOMAIN heap : heap[i].payload = x})
    + Cardinality({t \in Threads : InFlight(t, x)})

\* C18: conservation of payloads. Every payload pushed is in exactly one
\* place: returned by one successful pop, or stored once in the heap, or held
\* by the push or pop in progress; nothing that was not pushed is returned or
\* stored; and when no call is in progress the payloads returned and the
\* payloads stored are together exactly the payloads pushed.
C18_PayloadConservation ==
    /\ \A x \in DOMAIN pushed : Occurrences(x) = 1
    /\ \A k \in DOMAIN popped : popped[k].payload \in DOMAIN pushed
    /\ \A i \in DOMAIN heap : heap[i].payload \in DOMAIN pushed
    /\ (\A t \in Threads : pc[t] = "idle") =>
          /\ Len(popped) + Len(heap) = Len(pushed)
          /\ {popped[k].payload : k \in DOMAIN popped}
                \cup {heap[i].payload : i \in DOMAIN heap} = DOMAIN pushed
          /\ {popped[k].payload : k \in DOMAIN popped}
                \cap {heap[i].payload : i \in DOMAIN heap} = {}

\* No call is in progress after concurrent pushes and pops; payloads were
\* returned and payloads are still stored.
C18_Witness ==
    /\ \A t \in Threads : pc[t] = "idle"
    /\ contended
    /\ Len(popped) >= 2
    /\ Len(heap) >= 2

\* ---------------------------------------------------------------------------
\* Two runs of one sequence of calls. Every push and pop is applied to the
\* queue of the variables under the readings T0, T and to the queue `twin`
\* under the readings U0, U, which are chosen freely and independently. The
\* calls use the priorities of ThreadPriorities and at most MaxTwinPush pushes.

\* PriorityQueue.push(obj, priority) applied to the queue q.
twin_push(q, obj, priority, T0, T) ==
    LET o == get_order(q.priority_timestamp_order, q.objs, priority, T0, T)
        element == Element(priority, o.order, obj)
    IN [heap |-> heappush(q.heap, element, o.objs),
        length |-> push_length(q.length),
        priority_lentghs |-> push_priority_lentghs(q.priority_lentghs, priority),
        priority_timestamp_order |-> o.pto,
        objs |-> o.objs,
        ret |-> [op |-> "push", exc |-> NoException, val |-> None]]

\* PriorityQueue.pop() applied to the queue q.
twin_pop(q) ==
    IF q.length = 0
    THEN [q EXCEPT !.ret = [op |-> "pop", exc |-> QueueEmptyException, val |-> None]]
    ELSE LET r == heappop(q.heap, q.objs)
         IN [q EXCEPT !.length = pop_length(q.length),
                      !.heap = r.heap,
                      !.priority_lentghs = pop_priority_lentghs(q.priority_lentghs, r.item.priority),
                      !.ret = [op |-> "pop", exc |-> NoException, val |-> Some(r.item.payload)]]

TwinPush ==
    /\ Len(pushed) < MaxTwinPush
    /\ \E priority \in ThreadPriorities, T0 \in Times, T \in Times, U0 \in Times, U \in Times :
          /\ push(Len(pushed) + 1, priority, T0, T)
          /\ twin' = twin_push(twin, Len(pushed) + 1, priority, U0, U)
    /\ UNCHANGED tvars

TwinPop ==
    /\ pop
    /\ twin' = twin_pop(twin)
    /\ UNCHANGED tvars

NextTwin == TwinPush \/ TwinPop

SpecTwin == Init /\ [][NextTwin]_vars

\* The two runs observed different clocks: their generator objects differ.
ClocksDiffered ==
    \E p \in DOMAIN priority_timestamp_order :
        objs[priority_timestamp_order[p]] # twin.objs[twin.priority_timestamp_order[p]]

\* C19: clock independence. Two runs of the same sequence of push and pop
\* calls under different clock readings get the same payload, or the same
\* QueueEmptyException, from every pop.
C19_ClockIndependence ==
    ret.op = "pop" => /\ twin.ret.op = "pop"
                      /\ twin.ret.exc = ret.exc
                      /\ twin.ret.val = ret.val

\* A pop returned a payload in both runs after three pushes at one priority
\* and a push at another, the two runs having seen different clocks.
C19_Witness ==
    /\ ret.op = "pop"
    /\ ret.exc = NoException
    /\ Len(popped) >= 2
    /\ ClocksDiffered
    /\ \E p \in Priorities : Cardinality({x \in DOMAIN pushed : pushed[x] = p}) >= 3
    /\ \E x, y \in DOMAIN pushed : pushed[x] # pushed[y]

====
